---- MODULE Spec2Model ----
(***************************************************************************)
(* A model of the OPPO OZIP converter (src/code.py): the transfer-list     *)
(* parser and writer, the block image materializer, the key-trial          *)
(* decryption and the container encoder, and the orchestration of one      *)
(* conversion run with its cancel flag.                                    *)
(*                                                                         *)
(* Files are sequences of bytes (0..255); text files are sequences of      *)
(* one-character strings.  The file system fs maps the paths that exist    *)
(* to their contents.                                                      *)
(***************************************************************************)
EXTENDS Integers, Sequences, FiniteSets, TLC

(***************************************************************************)
(* Sizes.  The source fixes block_size = 4096 (src/code.py:576, 687); the  *)
(* code is uniform in it, and the model runs it scaled down so that every  *)
(* image over the byte alphabet can be enumerated.                         *)
(***************************************************************************)
BlockSize == 2

\* Bounds of the enumerated inputs.
MaxCmdLines == 2
MaxDatBlocks == 3
MaxImgBlocks == 2
LongBlocks == 11

VARIABLES
  fs,                      \* the file system: path |-> content, for the paths that exist
  conversion_in_progress,  \* self.conversion_in_progress
  cancel_requested,        \* self.cancel_requested
  successful_key,          \* self.successful_key: a key of KEYS, NoKey for None
  threads,                 \* the run_conversion threads started and not yet finished
  after_queue,             \* the callbacks handed to root.after(0, ...), oldest first
  run,                     \* the frame of run_conversion
  pc,                      \* the worker's position
  ret,                     \* where the worker continues when the current call returns
  error,                   \* the message of the exception being raised, "" when none
  dat,                     \* the frame of convert_dat_to_img
  dec,                     \* the frame of decrypt_ozip
  enc,                     \* the frame of encrypt_to_ozip
  since_cancel,            \* observation: blocks copied by `new` commands while the flag was set
  rejected,                \* observation: a start request was refused since the last accepted one
  terminal,                \* observation: the terminal messages the run has emitted, oldest first
  tried                    \* observation: the indices of the keys tried, in the order tried

vars ==
  <<fs, conversion_in_progress, cancel_requested, successful_key, threads, after_queue,
    run, pc, ret, error, dat, dec, enc, since_cancel, rejected, terminal, tried>>

\* The controller's and the run's own state.
ctlVars == <<conversion_in_progress, threads, after_queue, run, rejected, terminal>>

\* What the codec leaves alone, and what the cipher leaves alone.
notCodec == <<successful_key, dec, enc, tried, ctlVars>>

notCipher == <<dat, since_cancel, ctlVars>>

(***************************************************************************)
(* Bytes and files                                                         *)
(***************************************************************************)
Zeros(n) == [k \in 1..n |-> 0]

Max(a, b) == IF a >= b THEN a ELSE b

Min(a, b) == IF a <= b THEN a ELSE b

\* open(path, 'wb') / f.write: the path now exists with this content.
Put(files, path, content) ==
  [p \in (DOMAIN files) \cup {path} |-> IF p = path THEN content ELSE files[p]]

\* os.unlink / os.remove
Remove(files, path) == [p \in (DOMAIN files) \ {path} |-> files[p]]

\* f.read(n) at position pos (0-based): at most n bytes, fewer at the end of the file.
ReadAt(content, pos, n) ==
  SubSeq(content, pos + 1, Min(pos + n, Len(content)))

\* f.seek(pos); f.write(data): overwrites in place, extends the file when needed.
\* Writing nothing changes nothing, wherever the position is.
WriteAt(content, pos, data) ==
  IF data = <<>> THEN content
  ELSE LET gap == IF pos > Len(content) THEN Zeros(pos - Len(content)) ELSE <<>>
           before == SubSeq(content, 1, Min(pos, Len(content)))
           after == SubSeq(content, pos + Len(data) + 1, Len(content))
       IN before \o gap \o data \o after

(***************************************************************************)
(* Paths.  The output directory holds the output container; the temporary  *)
(* directory temp_conversion is made inside it.                            *)
(***************************************************************************)
\* self.ozip_path and self.system_img_path, the files the user chose.
PathOzip == "firmware.ozip"

PathCustom == "system.img"

\* os.path.join(self.output_path.get(), "custom_firmware.ozip")
PathOut == "custom_firmware.ozip"

\* temp_decrypt_<random>: one exists at a time, so one name stands for them.
PathTempDecrypt == "temp_conversion/temp_decrypt"

PathDecrypted == "temp_conversion/decrypted.zip"

PathBr == "temp_conversion/extracted/system.new.dat.br"

PathList == "temp_conversion/extracted/system.transfer.list"

PathDat == "temp_conversion/system.new.dat"

PathImg == "temp_conversion/original_system.img"

PathNewList == "temp_conversion/new_system.transfer.list"

PathNewDat == "temp_conversion/new_system.new.dat"

PathNewBr == "temp_conversion/new_system.new.dat.br"

PathNewZip == "temp_conversion/new_firmware.zip"

\* Where the round trip of an image puts the image it reads back.
PathBack == "roundtrip.img"

\* Everything under temp_conversion.
TempPaths ==
  {PathTempDecrypt, PathDecrypted, PathBr, PathList, PathDat, PathImg, PathNewList,
   PathNewDat, PathNewBr, PathNewZip}

\* shutil.rmtree(temp_dir, ignore_errors=True)
rmtree(files) == [p \in (DOMAIN files) \ TempPaths |-> files[p]]

(***************************************************************************)
(* Text: str.strip, str.split, int(), str(int), readlines                  *)
(***************************************************************************)
Digits == <<"0", "1", "2", "3", "4", "5", "6", "7", "8", "9">>

IsDigit(c) == \E d \in 1..10 : Digits[d] = c

DigitVal(c) == (CHOOSE d \in 1..10 : Digits[d] = c) - 1

IsSpace(c) == c \in {" ", "\n", "\t", "\r"}

RECURSIVE lstrip(_)
lstrip(s) == IF s # <<>> /\ IsSpace(Head(s)) THEN lstrip(Tail(s)) ELSE s

RECURSIVE rstrip(_)
rstrip(s) ==
  IF s # <<>> /\ IsSpace(s[Len(s)]) THEN rstrip(SubSeq(s, 1, Len(s) - 1)) ELSE s

strip(s) == rstrip(lstrip(s))

\* s.split(sep) for a one-character separator: "".split(",") is [""].
RECURSIVE split(_, _)
split(s, sep) ==
  IF \E i \in 1..Len(s) : s[i] = sep
  THEN LET i == CHOOSE j \in 1..Len(s) : s[j] = sep /\ \A k \in 1..(j - 1) : s[k] # sep
       IN <<SubSeq(s, 1, i - 1)>> \o split(SubSeq(s, i + 1, Len(s)), sep)
  ELSE <<s>>

\* f.readlines(): the lines, each with its newline, the last possibly without.
RECURSIVE readlines(_)
readlines(text) ==
  IF text = <<>> THEN <<>>
  ELSE IF \E i \in 1..Len(text) : text[i] = "\n"
  THEN LET i == CHOOSE j \in 1..Len(text) :
                  text[j] = "\n" /\ \A k \in 1..(j - 1) : text[k] # "\n"
       IN <<SubSeq(text, 1, i)>> \o readlines(SubSeq(text, i + 1, Len(text)))
  ELSE <<text>>

\* The digits of int(s) after the surrounding whitespace and one sign are removed.
IntBody(s) ==
  LET t == strip(s)
  IN IF t # <<>> /\ Head(t) \in {"+", "-"} THEN Tail(t) ELSE t

\* int(s) does not raise ValueError.
IsInt(s) == IntBody(s) # <<>> /\ \A i \in 1..Len(IntBody(s)) : IsDigit(IntBody(s)[i])

RECURSIVE DigitsValue(_)
DigitsValue(ds) ==
  IF ds = <<>> THEN 0
  ELSE 10 * DigitsValue(SubSeq(ds, 1, Len(ds) - 1)) + DigitVal(ds[Len(ds)])

\* int(s), for s with IsInt(s).
int(s) ==
  LET t == strip(s)
  IN IF t # <<>> /\ Head(t) = "-" THEN 0 - DigitsValue(IntBody(s))
     ELSE DigitsValue(IntBody(s))

\* str(n) / f'{n}' for n >= 0.
RECURSIVE str(_)
str(n) == IF n < 10 THEN <<Digits[n + 1]>> ELSE str(n \div 10) \o <<Digits[(n % 10) + 1]>>

(***************************************************************************)
(* parse_transfer_list                                                     *)
(***************************************************************************)
CmdNew == <<"n", "e", "w">>

CmdErase == <<"e", "r", "a", "s", "e">>

CmdZero == <<"z", "e", "r", "o">>

\* The version of line 0: int(), and 1 when it is no integer.
ParseVersion(lines) ==
  LET version_line == strip(lines[1])
  IN IF IsInt(version_line) THEN int(version_line) ELSE 1

\* The index (1-based) of the first command line: versions >= 2 skip up to three lines.
FirstCommandLine(lines) ==
  IF ParseVersion(lines) >= 2 THEN Min(Len(lines), 4) + 1 ELSE 2

\* The (start, end) pairs of a range list of even length; a pair with a value
\* that is no integer is left out (the `continue` of the inner loop).
RECURSIVE ParsePairs(_)
ParsePairs(ranges) ==
  IF Len(ranges) < 2 THEN <<>>
  ELSE LET rest == ParsePairs(SubSeq(ranges, 3, Len(ranges)))
       IN IF IsInt(ranges[1]) /\ IsInt(ranges[2])
          THEN <<<<int(ranges[1]), int(ranges[2])>>>> \o rest
          ELSE rest

\* What one line adds to the commands: nothing, or one (cmd, range_set).
ParseLine(raw) ==
  LET line == strip(raw)
      parts == split(line, " ")
      ranges == split(parts[2], ",")
  IN IF line = <<>> \/ Head(line) = "#" THEN <<>>
     ELSE IF Len(parts) < 2 THEN <<>>
     ELSE IF parts[1] \notin {CmdErase, CmdNew, CmdZero} THEN <<>>
     ELSE IF Len(ranges) % 2 # 0 THEN <<>>
     ELSE <<[cmd |-> parts[1], ranges |-> ParsePairs(ranges)]>>

RECURSIVE ParseLines(_, _)
ParseLines(lines, i) ==
  IF i > Len(lines) THEN <<>> ELSE ParseLine(lines[i]) \o ParseLines(lines, i + 1)

parse_transfer_list(text) ==
  LET lines == readlines(text)
  IN IF lines = <<>> THEN <<>> ELSE ParseLines(lines, FirstCommandLine(lines))

(***************************************************************************)
(* convert_img_to_dat                                                      *)
(***************************************************************************)
NL == <<"\n">>

\* A variant that starts the one `new` range at block 1.
WriteTransferListFromOne(img_size) ==
  LET total_blocks == (img_size + BlockSize - 1) \div BlockSize
  IN str(4) \o NL \o str(total_blocks) \o NL \o <<"0">> \o NL \o <<"0">> \o NL
     \o CmdNew \o <<" ", "1", ",">> \o str(total_blocks) \o NL

\* The transfer list written for an image of img_size bytes.
WriteTransferList(img_size) ==
  LET total_blocks == (img_size + BlockSize - 1) \div BlockSize
  IN str(4) \o NL \o str(total_blocks) \o NL \o <<"0">> \o NL \o <<"0">> \o NL
     \o CmdNew \o <<" ", "0", ",">> \o str(total_blocks) \o NL

\* convert_img_to_dat(img_path, output_transfer_list, output_dat_path), whole:
\* it polls no flag.
convert_img_to_dat(files, img_path, output_transfer_list, output_dat_path) ==
  Put(Put(files, output_transfer_list, WriteTransferList(Len(files[img_path]))),
      output_dat_path, files[img_path])

(***************************************************************************)
(* convert_dat_to_img                                                      *)
(***************************************************************************)
\* A variant that takes `end` as the last block, not the one after it.
RECURSIVE MaxEndInclusive(_, _)
MaxEndInclusive(ranges, acc) ==
  IF ranges = <<>> THEN acc
  ELSE MaxEndInclusive(Tail(ranges), Max(acc, Head(ranges)[2] + 1))

\* max_block: the largest `end` of any range, and 0 when none is larger.
RECURSIVE MaxEnd(_, _)
MaxEnd(ranges, acc) ==
  IF ranges = <<>> THEN acc ELSE MaxEnd(Tail(ranges), Max(acc, Head(ranges)[2]))

RECURSIVE MaxBlock(_, _)
MaxBlock(commands, acc) ==
  IF commands = <<>> THEN acc
  ELSE MaxBlock(Tail(commands), MaxEnd(Head(commands).ranges, acc))

\* A variant that trusts the pre-allocation and writes nothing.
ZeroRangesNoWrite(content, ranges) ==
  [content |-> content, ok |-> \A r \in 1..Len(ranges) : ranges[r][1] >= 0]

\* An erase/zero command: for each range seek(start * block_size) and write
\* (end - start) * block_size zero bytes.  A negative seek position raises; what
\* was written before it stays.
RECURSIVE ZeroRanges(_, _)
ZeroRanges(content, ranges) ==
  IF ranges = <<>> THEN [content |-> content, ok |-> TRUE]
  ELSE LET start == Head(ranges)[1]
           end == Head(ranges)[2]
       IN IF start < 0 THEN [content |-> content, ok |-> FALSE]
          ELSE ZeroRanges(WriteAt(content, start * BlockSize,
                                  Zeros((end - start) * BlockSize)),
                          Tail(ranges))

\* `raise Exception(msg)`: control goes to the caller's handler.
Raise(msg) == pc' = "except" /\ error' = msg

MsgCancelled == "Conversion cancelled by user"

MsgNoCommands == "No valid commands found in transfer list"

MsgSeek == "negative seek position"

CurCmd == dat.commands[dat.ci]

CurRange == CurCmd.ranges[dat.ri]

\* Entry: parse, compute max_block, open both files, pre-allocate the image.
DatOpen ==
  /\ pc = "dat_open"
  /\ LET commands == parse_transfer_list(fs[dat.transfer_list_path])
         max_block == MaxBlock(commands, 0)
     IN IF commands = <<>>
        THEN /\ Raise(MsgNoCommands)
             /\ UNCHANGED <<fs, dat>>
        ELSE /\ fs' = Put(fs, dat.output_img_path, Zeros(max_block * BlockSize))
             /\ dat' = [dat EXCEPT !.commands = commands, !.max_block = max_block,
                                   !.ci = 1, !.ri = 1, !.bi = 0,
                                   !.dat_pos = 0, !.img_pos = 0]
             /\ pc' = "dat_cmd"
             /\ UNCHANGED error
  /\ UNCHANGED <<cancel_requested, ret, since_cancel>>
  /\ UNCHANGED notCodec

\* Top of the command loop with a command left: the flag is polled here, once
\* per command; an erase/zero command is applied whole.
DatCmd ==
  /\ pc = "dat_cmd"
  /\ dat.ci <= Len(dat.commands)
  /\ IF cancel_requested
     THEN /\ Raise(MsgCancelled)
          /\ UNCHANGED <<fs, dat>>
     ELSE IF CurCmd.cmd = CmdNew
     THEN /\ dat' = [dat EXCEPT !.ri = 1]
          /\ pc' = "dat_range"
          /\ UNCHANGED <<fs, error>>
     ELSE LET z == ZeroRanges(fs[dat.output_img_path], CurCmd.ranges)
          IN /\ fs' = Put(fs, dat.output_img_path, z.content)
             /\ IF z.ok
                THEN /\ dat' = [dat EXCEPT !.ci = @ + 1]
                     /\ UNCHANGED <<pc, error>>
                ELSE /\ Raise(MsgSeek)
                     /\ UNCHANGED dat
  /\ UNCHANGED <<cancel_requested, ret, since_cancel>>
  /\ UNCHANGED notCodec

\* The command loop is over: both files are closed and the call returns.
DatDone ==
  /\ pc = "dat_cmd"
  /\ dat.ci > Len(dat.commands)
  /\ pc' = ret
  /\ UNCHANGED <<fs, cancel_requested, ret, error, dat, since_cancel>>
  /\ UNCHANGED notCodec

\* A variant that rewinds the block source at every range.
DatRangeRewinds ==
  /\ pc = "dat_range"
  /\ dat.ri <= Len(CurCmd.ranges)
  /\ IF CurRange[1] < 0
     THEN /\ Raise(MsgSeek)
          /\ UNCHANGED dat
     ELSE /\ dat' = [dat EXCEPT !.img_pos = CurRange[1] * BlockSize, !.bi = 0,
                                !.dat_pos = 0]
          /\ pc' = "dat_block"
          /\ UNCHANGED error
  /\ UNCHANGED <<fs, cancel_requested, ret, since_cancel>>
  /\ UNCHANGED notCodec

\* A range of a `new` command: img_file.seek(start * block_size).
DatRange ==
  /\ pc = "dat_range"
  /\ dat.ri <= Len(CurCmd.ranges)
  /\ IF CurRange[1] < 0
     THEN /\ Raise(MsgSeek)
          /\ UNCHANGED dat
     ELSE /\ dat' = [dat EXCEPT !.img_pos = CurRange[1] * BlockSize, !.bi = 0]
          /\ pc' = "dat_block"
          /\ UNCHANGED error
  /\ UNCHANGED <<fs, cancel_requested, ret, since_cancel>>
  /\ UNCHANGED notCodec

\* The ranges of the `new` command are done: next command.
DatRangesDone ==
  /\ pc = "dat_range"
  /\ dat.ri > Len(CurCmd.ranges)
  /\ dat' = [dat EXCEPT !.ci = @ + 1]
  /\ pc' = "dat_cmd"
  /\ UNCHANGED <<fs, cancel_requested, ret, error, since_cancel>>
  /\ UNCHANGED notCodec

\* A variant that writes a short block as it was read.
NextBlockNoPad(source, dat_pos) == ReadAt(source, dat_pos, BlockSize)

\* The block a `new` command writes: block_size bytes read at the source cursor,
\* zero-padded when the source has fewer left.
NextBlock(source, dat_pos) ==
  LET block == ReadAt(source, dat_pos, BlockSize)
  IN block \o Zeros(BlockSize - Len(block))

\* One pass of the block loop: read a block from the source cursor, pad it, write it.
DatBlock ==
  /\ pc = "dat_block"
  /\ dat.bi < CurRange[2] - CurRange[1]
  /\ LET block == ReadAt(fs[dat.dat_path], dat.dat_pos, BlockSize)
     IN /\ fs' = Put(fs, dat.output_img_path,
                     WriteAt(fs[dat.output_img_path], dat.img_pos,
                             NextBlock(fs[dat.dat_path], dat.dat_pos)))
        /\ dat' = [dat EXCEPT !.bi = @ + 1, !.dat_pos = @ + Len(block),
                              !.img_pos = @ + BlockSize]
  /\ since_cancel' = IF cancel_requested THEN since_cancel + 1 ELSE since_cancel
  /\ UNCHANGED <<cancel_requested, pc, ret, error>>
  /\ UNCHANGED notCodec

\* The block loop of the range is over: next range.
DatBlocksDone ==
  /\ pc = "dat_block"
  /\ dat.bi >= CurRange[2] - CurRange[1]
  /\ dat' = [dat EXCEPT !.ri = @ + 1]
  /\ pc' = "dat_range"
  /\ UNCHANGED <<fs, cancel_requested, ret, error, since_cancel>>
  /\ UNCHANGED notCodec

convert_dat_to_img ==
  \/ DatOpen \/ DatCmd \/ DatDone \/ DatRange \/ DatRangesDone
  \/ DatBlock \/ DatBlocksDone

\* A fresh frame of convert_dat_to_img(transfer_list_path, dat_path, output_img_path).
DatFrame(transfer_list_path, dat_path, output_img_path) ==
  [transfer_list_path |-> transfer_list_path, dat_path |-> dat_path,
   output_img_path |-> output_img_path, commands |-> <<>>, max_block |-> 0,
   ci |-> 1, ri |-> 1, bi |-> 0, dat_pos |-> 0, img_pos |-> 0]

(***************************************************************************)
(* The key registry and the cipher                                         *)
(***************************************************************************)
\* KEYS, as written in the source: 32 hexadecimal digits each.
KEYS == <<
    <<"d", "6", "e", "e", "c", "f", "0", "a", "e", "5", "a", "c", "d", "4", "e", "0", "e", "9", "f", "e", "5", "2", "2", "d", "e", "7", "c", "e", "3", "8", "1", "e">>,
    <<"d", "6", "e", "c", "c", "f", "0", "a", "e", "5", "a", "c", "d", "4", "e", "0", "e", "9", "2", "e", "5", "2", "2", "d", "e", "7", "c", "1", "3", "8", "1", "e">>,
    <<"d", "6", "d", "c", "c", "f", "0", "a", "d", "5", "a", "c", "d", "4", "e", "0", "2", "9", "2", "e", "5", "2", "2", "d", "b", "7", "c", "1", "3", "8", "1", "e">>,
    <<"d", "7", "d", "c", "c", "e", "1", "a", "d", "4", "a", "f", "d", "c", "e", "2", "3", "9", "3", "e", "5", "1", "6", "1", "c", "b", "d", "c", "4", "3", "2", "1">>,
    <<"d", "7", "d", "b", "c", "e", "2", "a", "d", "4", "a", "d", "d", "c", "e", "1", "3", "9", "3", "e", "5", "5", "2", "1", "c", "b", "d", "c", "4", "3", "2", "1">>,
    <<"d", "7", "d", "b", "c", "e", "1", "a", "d", "4", "a", "f", "d", "c", "e", "1", "3", "9", "3", "e", "5", "1", "2", "1", "c", "b", "d", "c", "4", "3", "2", "1">>,
    <<"d", "4", "d", "2", "c", "d", "6", "1", "d", "4", "a", "f", "d", "c", "e", "1", "3", "b", "5", "e", "0", "1", "2", "2", "1", "b", "d", "1", "4", "d", "2", "0">>,
    <<"2", "6", "1", "c", "c", "7", "1", "3", "1", "d", "7", "c", "1", "4", "8", "1", "2", "9", "4", "e", "5", "3", "2", "d", "b", "7", "5", "2", "3", "8", "1", "e">>,
    <<"1", "c", "a", "2", "1", "e", "1", "2", "2", "7", "1", "3", "3", "5", "a", "e", "3", "3", "a", "b", "8", "1", "b", "2", "a", "7", "b", "1", "4", "6", "2", "2">>,
    <<"d", "4", "d", "2", "c", "e", "1", "1", "d", "4", "a", "f", "d", "c", "e", "1", "3", "b", "3", "e", "0", "1", "2", "1", "c", "b", "d", "c", "4", "3", "2", "1">>,
    <<"1", "c", "4", "c", "1", "e", "a", "3", "a", "1", "2", "5", "3", "1", "a", "e", "4", "9", "1", "b", "2", "1", "b", "b", "3", "1", "6", "1", "3", "c", "1", "1">>,
    <<"a", "c", "a", "a", "1", "e", "1", "2", "a", "7", "1", "4", "3", "1", "c", "e", "4", "a", "1", "b", "2", "1", "b", "b", "a", "1", "c", "1", "c", "6", "a", "2">>,
    <<"D", "6", "E", "E", "C", "F", "0", "A", "E", "5", "A", "C", "D", "4", "E", "0", "E", "9", "F", "E", "5", "2", "2", "D", "E", "7", "C", "E", "3", "8", "1", "E">>,
    <<"D", "6", "E", "C", "C", "F", "0", "A", "E", "5", "A", "C", "D", "4", "E", "0", "E", "9", "2", "E", "5", "2", "2", "D", "E", "7", "C", "1", "3", "8", "1", "E">>,
    <<"D", "6", "D", "C", "C", "F", "0", "A", "D", "5", "A", "C", "D", "4", "E", "0", "2", "9", "2", "E", "5", "2", "2", "D", "B", "7", "C", "1", "3", "8", "1", "E">>,
    <<"D", "7", "D", "C", "C", "E", "1", "A", "D", "4", "A", "F", "D", "C", "E", "2", "3", "9", "3", "E", "5", "1", "6", "1", "C", "B", "D", "C", "4", "3", "2", "1">>,
    <<"D", "7", "D", "B", "C", "E", "2", "A", "D", "4", "A", "D", "D", "C", "E", "1", "3", "9", "3", "E", "5", "5", "2", "1", "C", "B", "D", "C", "4", "3", "2", "1">>,
    <<"D", "7", "D", "B", "C", "E", "1", "A", "D", "4", "A", "F", "D", "C", "E", "1", "3", "9", "3", "E", "5", "1", "2", "1", "C", "B", "D", "C", "4", "3", "2", "1">>,
    <<"D", "4", "D", "2", "C", "D", "6", "1", "D", "4", "A", "F", "D", "C", "E", "1", "3", "B", "5", "E", "0", "1", "2", "2", "1", "B", "D", "1", "4", "D", "2", "0">>,
    <<"2", "6", "1", "C", "C", "7", "1", "3", "1", "D", "7", "C", "1", "4", "8", "1", "2", "9", "4", "E", "5", "3", "2", "D", "B", "7", "5", "2", "3", "8", "1", "E">>,
    <<"1", "C", "A", "2", "1", "E", "1", "2", "2", "7", "1", "3", "3", "5", "A", "E", "3", "3", "A", "B", "8", "1", "B", "2", "A", "7", "B", "1", "4", "6", "2", "2">>,
    <<"D", "4", "D", "2", "C", "E", "1", "1", "D", "4", "A", "F", "D", "C", "E", "1", "3", "B", "3", "E", "0", "1", "2", "1", "C", "B", "D", "1", "4", "D", "2", "0">>,
    <<"1", "C", "4", "C", "1", "E", "A", "3", "A", "1", "2", "5", "3", "1", "A", "E", "4", "9", "1", "B", "2", "1", "B", "B", "3", "1", "6", "1", "3", "C", "1", "1">>,
    <<"1", "C", "4", "C", "1", "E", "A", "3", "A", "1", "2", "5", "3", "1", "A", "E", "4", "A", "1", "B", "2", "1", "B", "B", "3", "1", "C", "1", "3", "C", "2", "1">>,
    <<"1", "C", "4", "A", "1", "1", "A", "3", "A", "1", "2", "5", "1", "3", "A", "E", "4", "4", "1", "B", "2", "3", "B", "B", "3", "1", "5", "1", "3", "1", "2", "1">>,
    <<"1", "C", "4", "A", "1", "1", "A", "3", "A", "1", "2", "5", "8", "9", "A", "E", "4", "4", "1", "A", "2", "3", "B", "B", "3", "1", "5", "1", "7", "7", "3", "3">>,
    <<"1", "C", "4", "A", "1", "1", "A", "3", "A", "2", "2", "5", "1", "3", "A", "E", "5", "4", "1", "B", "5", "3", "B", "B", "3", "1", "5", "1", "3", "1", "2", "1">>,
    <<"2", "4", "4", "2", "C", "E", "8", "2", "1", "A", "4", "F", "3", "5", "2", "E", "3", "3", "A", "E", "8", "1", "B", "2", "2", "B", "C", "1", "4", "6", "2", "E">>,
    <<"1", "4", "C", "2", "C", "D", "6", "2", "1", "4", "C", "F", "D", "C", "2", "7", "3", "3", "A", "E", "8", "1", "B", "2", "2", "B", "C", "1", "4", "6", "2", "C">>,
    <<"1", "E", "3", "8", "C", "1", "B", "7", "2", "D", "5", "2", "2", "E", "2", "9", "E", "0", "D", "4", "A", "C", "D", "5", "0", "A", "C", "F", "D", "C", "D", "6">>,
    <<"1", "2", "3", "4", "1", "E", "A", "A", "C", "4", "C", "1", "2", "3", "C", "E", "1", "9", "3", "5", "5", "6", "A", "1", "B", "B", "C", "C", "2", "3", "2", "D">>,
    <<"2", "1", "4", "3", "D", "C", "C", "B", "2", "1", "5", "1", "3", "E", "3", "9", "E", "1", "D", "C", "A", "F", "D", "4", "1", "A", "C", "E", "D", "B", "D", "7">>,
    <<"2", "D", "2", "3", "C", "C", "B", "B", "A", "1", "5", "6", "3", "5", "1", "9", "C", "E", "2", "3", "C", "1", "C", "4", "A", "A", "1", "E", "3", "4", "1", "2">>,
    <<"1", "7", "2", "B", "3", "E", "1", "4", "E", "4", "6", "F", "3", "C", "E", "1", "3", "E", "2", "B", "5", "1", "2", "1", "C", "B", "D", "C", "4", "3", "2", "1">>,
    <<"A", "C", "A", "A", "1", "E", "1", "2", "A", "7", "1", "4", "3", "1", "C", "E", "4", "A", "1", "B", "2", "1", "B", "B", "A", "1", "C", "1", "C", "6", "A", "2">>,
    <<"A", "C", "A", "C", "1", "E", "1", "3", "A", "7", "2", "5", "3", "1", "A", "E", "4", "A", "1", "B", "2", "2", "B", "B", "3", "1", "C", "1", "C", "C", "2", "2">>,
    <<"1", "C", "4", "4", "1", "1", "A", "3", "A", "1", "2", "5", "3", "3", "A", "E", "4", "4", "1", "B", "2", "1", "B", "B", "3", "1", "6", "1", "3", "C", "1", "1">>,
    <<"1", "C", "4", "4", "1", "6", "A", "8", "A", "4", "2", "7", "1", "7", "A", "E", "4", "4", "1", "5", "2", "3", "B", "3", "3", "6", "5", "1", "3", "1", "2", "1">>,
    <<"5", "5", "E", "E", "A", "A", "3", "3", "1", "1", "2", "1", "3", "3", "A", "E", "4", "4", "1", "B", "2", "3", "B", "B", "3", "1", "5", "1", "3", "1", "2", "1">>,
    <<"A", "C", "A", "C", "1", "E", "1", "3", "A", "1", "2", "5", "3", "1", "A", "E", "4", "A", "1", "B", "2", "1", "B", "B", "3", "1", "C", "1", "3", "C", "2", "1">>,
    <<"A", "C", "A", "C", "1", "E", "1", "3", "A", "7", "2", "4", "3", "1", "A", "E", "4", "A", "1", "B", "2", "2", "B", "B", "A", "1", "C", "1", "C", "6", "A", "2">>,
    <<"1", "2", "C", "A", "C", "1", "1", "2", "1", "1", "A", "A", "C", "3", "A", "E", "A", "2", "6", "5", "8", "6", "9", "0", "1", "2", "2", "C", "1", "E", "8", "1">>,
    <<"1", "C", "A", "2", "1", "E", "1", "2", "2", "7", "1", "4", "3", "5", "A", "E", "3", "3", "1", "B", "8", "1", "B", "B", "A", "7", "C", "1", "4", "6", "1", "2">>,
    <<"D", "1", "D", "A", "C", "F", "2", "4", "3", "5", "1", "C", "E", "4", "2", "8", "A", "9", "C", "E", "3", "2", "E", "D", "8", "7", "3", "2", "3", "2", "1", "6">>,
    <<"A", "1", "C", "C", "7", "5", "1", "1", "5", "C", "A", "E", "C", "B", "8", "9", "0", "E", "4", "A", "5", "6", "3", "C", "A", "1", "A", "C", "6", "7", "C", "8">>,
    <<"2", "1", "3", "2", "3", "2", "1", "E", "A", "2", "C", "A", "8", "6", "6", "2", "1", "A", "1", "1", "2", "4", "1", "A", "B", "A", "5", "1", "2", "7", "2", "2">>,
    <<"2", "2", "A", "2", "1", "E", "8", "2", "1", "7", "4", "3", "E", "5", "E", "E", "3", "3", "A", "E", "8", "1", "B", "2", "2", "7", "B", "1", "4", "6", "2", "E">> >>

\* self.successful_key = None
NoKey == <<>>

HexDigits == <<"0", "1", "2", "3", "4", "5", "6", "7", "8", "9",
               "a", "b", "c", "d", "e", "f">>

HexUpper == <<"0", "1", "2", "3", "4", "5", "6", "7", "8", "9",
              "A", "B", "C", "D", "E", "F">>

HexVal(c) == (CHOOSE d \in 1..16 : HexDigits[d] = c \/ HexUpper[d] = c) - 1

\* binascii.unhexlify: two digits a byte, either case.
unhexlify(hex) ==
  [i \in 1..(Len(hex) \div 2) |-> 16 * HexVal(hex[2 * i - 1]) + HexVal(hex[2 * i])]

\* The cipher block size in bytes (pad(chunk, 16)).
AESBlock == 16

\* Chunks of the cipher loops: 0x4000 bytes in the source, 1024 cipher blocks;
\* scaled down here, and a whole number of cipher blocks as there.
ChunkBlocks == 2

ChunkSize == ChunkBlocks * AESBlock

\* The header: 0x1050 bytes in the source, scaled down here.
HeaderSize == 20

\* b'OPPOENCRYPT!'
Magic == <<79, 80, 80, 79, 69, 78, 67, 82, 89, 80, 84, 33>>

\* b'PK\x03\x04'
ZipMagic == <<80, 75, 3, 4>>

RECURSIVE SumOf(_)
SumOf(bytes) == IF bytes = <<>> THEN 0 ELSE Head(bytes) + SumOf(Tail(bytes))

\* AES in ECB mode is the Crypto library's; the model puts in its place a keyed
\* bijection on 16-byte blocks that, like it, treats every block alike and
\* depends on the whole key.  KeyByte is what it adds at position i.
KeyByte(key, i) == (key[((i - 1) % AESBlock) + 1] + SumOf(key)) % 256

\* The 16 bytes the cipher adds to every block under a key.
KeyStream(key) == [i \in 1..AESBlock |-> KeyByte(key, i)]

EncryptWith(stream, data) ==
  [i \in 1..Len(data) |-> (data[i] + stream[((i - 1) % AESBlock) + 1]) % 256]

DecryptWith(stream, data) ==
  [i \in 1..Len(data) |-> (data[i] + 256 - stream[((i - 1) % AESBlock) + 1]) % 256]

\* cipher.encrypt(data), for data of a whole number of blocks.
AESEncrypt(key, data) == EncryptWith(KeyStream(key), data)

\* cipher.decrypt(data), for data of a whole number of blocks.
AESDecrypt(key, data) == DecryptWith(KeyStream(key), data)

\* Crypto.Util.Padding.pad(data, 16): PKCS#7, n bytes of value n up to the boundary.
pad(data) ==
  LET n == AESBlock - (Len(data) % AESBlock)
  IN data \o [i \in 1..n |-> n]

\* `if len(chunk) % 16 != 0: chunk = pad(chunk, 16)`
PadIfNeeded(chunk) == IF Len(chunk) % AESBlock # 0 THEN pad(chunk) ELSE chunk

(***************************************************************************)
(* decrypt_ozip                                                            *)
(***************************************************************************)
MsgNoFile == "No such file or directory"

MsgTooSmall == "OZIP file is too small to be valid"

MsgExhausted == "Failed to decrypt OZIP with any known key"

DecFrame(ozip_path, output_path) ==
  [ozip_path |-> ozip_path, output_path |-> output_path, encrypted_size |-> 0,
   ki |-> 1, bytes_decrypted |-> 0, result |-> FALSE]

\* Entry: os.path.getsize raises for a path that does not exist; then the size
\* check, the (unchecked) magic, the size of the body.
DecOpen ==
  /\ pc = "dec_open"
  /\ IF dec.ozip_path \notin DOMAIN fs
     THEN /\ Raise(MsgNoFile)
          /\ UNCHANGED dec
     ELSE IF Len(fs[dec.ozip_path]) < HeaderSize
     THEN /\ Raise(MsgTooSmall)
          /\ UNCHANGED dec
     ELSE /\ dec' = [dec EXCEPT !.encrypted_size = Len(fs[dec.ozip_path]) - HeaderSize,
                                !.ki = 1, !.bytes_decrypted = 0, !.result = FALSE]
          /\ pc' = "dec_key"
          /\ UNCHANGED error
  /\ tried' = <<>>
  /\ UNCHANGED <<fs, cancel_requested, successful_key, ret>>
  /\ UNCHANGED <<enc, notCipher>>

\* Top of the key loop with a key left: the flag is polled, then the trial of
\* this key begins with an empty temporary file.
DecKey ==
  /\ pc = "dec_key"
  /\ dec.ki <= Len(KEYS)
  /\ IF cancel_requested
     THEN /\ dec' = [dec EXCEPT !.result = FALSE]
          /\ pc' = ret
          /\ UNCHANGED <<fs, tried>>
     ELSE /\ fs' = Put(fs, PathTempDecrypt, <<>>)
          /\ dec' = [dec EXCEPT !.bytes_decrypted = 0]
          /\ tried' = Append(tried, dec.ki)
          /\ pc' = "dec_chunk"
  /\ UNCHANGED <<cancel_requested, successful_key, ret, error>>
  /\ UNCHANGED <<enc, notCipher>>

\* A variant that returns False when the keys run out.
DecExhaustedReturnsFalse ==
  /\ pc = "dec_key"
  /\ dec.ki > Len(KEYS)
  /\ dec' = [dec EXCEPT !.result = FALSE]
  /\ pc' = ret
  /\ UNCHANGED <<fs, cancel_requested, successful_key, ret, error, tried>>
  /\ UNCHANGED <<enc, notCipher>>

\* The key loop is over and no key has validated.
DecExhausted ==
  /\ pc = "dec_key"
  /\ dec.ki > Len(KEYS)
  /\ Raise(MsgExhausted)
  /\ UNCHANGED <<fs, cancel_requested, successful_key, ret, dec, tried>>
  /\ UNCHANGED <<enc, notCipher>>

\* One pass of the chunk loop: poll the flag, read a chunk of the body, pad
\* it when it is no whole number of blocks, decrypt it, write it.
DecChunk ==
  /\ pc = "dec_chunk"
  /\ dec.bytes_decrypted < dec.encrypted_size
  /\ IF cancel_requested
     THEN /\ pc' = "dec_verify"
          /\ UNCHANGED <<fs, dec>>
     ELSE LET chunk_size == Min(ChunkSize, dec.encrypted_size - dec.bytes_decrypted)
              chunk == ReadAt(fs[dec.ozip_path], HeaderSize + dec.bytes_decrypted,
                              chunk_size)
              decrypted == AESDecrypt(unhexlify(KEYS[dec.ki]), PadIfNeeded(chunk))
          IN /\ fs' = Put(fs, PathTempDecrypt, fs[PathTempDecrypt] \o decrypted)
             /\ dec' = [dec EXCEPT !.bytes_decrypted = @ + chunk_size]
             /\ UNCHANGED pc
  /\ UNCHANGED <<cancel_requested, successful_key, ret, error, tried>>
  /\ UNCHANGED <<enc, notCipher>>

\* The chunk loop has consumed the body.
DecChunksDone ==
  /\ pc = "dec_chunk"
  /\ dec.bytes_decrypted >= dec.encrypted_size
  /\ pc' = "dec_verify"
  /\ UNCHANGED <<fs, cancel_requested, successful_key, ret, error, dec, tried>>
  /\ UNCHANGED <<enc, notCipher>>

\* A variant that records the key of a valid plaintext and goes on to the next key.
DecVerifyKeepTrying ==
  /\ pc = "dec_verify"
  /\ IF cancel_requested
     THEN /\ fs' = Remove(fs, PathTempDecrypt)
          /\ dec' = [dec EXCEPT !.result = FALSE]
          /\ pc' = ret
          /\ UNCHANGED successful_key
     ELSE IF ReadAt(fs[PathTempDecrypt], 0, 4) = ZipMagic
     THEN /\ fs' = Put(Remove(fs, PathTempDecrypt), dec.output_path, fs[PathTempDecrypt])
          /\ successful_key' = KEYS[dec.ki]
          /\ dec' = [dec EXCEPT !.result = TRUE, !.ki = @ + 1]
          /\ pc' = "dec_key"
     ELSE /\ fs' = Remove(fs, PathTempDecrypt)
          /\ dec' = [dec EXCEPT !.ki = @ + 1]
          /\ pc' = "dec_key"
          /\ UNCHANGED successful_key
  /\ UNCHANGED <<cancel_requested, ret, error, tried>>
  /\ UNCHANGED <<enc, notCipher>>

\* A variant that does not record the key of the valid plaintext.
DecVerifyForgetsKey ==
  /\ pc = "dec_verify"
  /\ IF cancel_requested
     THEN /\ fs' = Remove(fs, PathTempDecrypt)
          /\ dec' = [dec EXCEPT !.result = FALSE]
          /\ pc' = ret
     ELSE IF ReadAt(fs[PathTempDecrypt], 0, 4) = ZipMagic
     THEN /\ fs' = Put(Remove(fs, PathTempDecrypt), dec.output_path, fs[PathTempDecrypt])
          /\ dec' = [dec EXCEPT !.result = TRUE]
          /\ pc' = ret
     ELSE /\ fs' = Remove(fs, PathTempDecrypt)
          /\ dec' = [dec EXCEPT !.ki = @ + 1]
          /\ pc' = "dec_key"
  /\ UNCHANGED <<cancel_requested, successful_key, ret, error, tried>>
  /\ UNCHANGED <<enc, notCipher>>

\* After the chunk loop: a cancelled trial removes its file and returns False;
\* a plaintext that starts with the archive magic is moved to the output path,
\* the key is recorded and the call returns True; any other is removed and the
\* next key is tried.
DecVerify ==
  /\ pc = "dec_verify"
  /\ IF cancel_requested
     THEN /\ fs' = Remove(fs, PathTempDecrypt)
          /\ dec' = [dec EXCEPT !.result = FALSE]
          /\ pc' = ret
          /\ UNCHANGED successful_key
     ELSE IF ReadAt(fs[PathTempDecrypt], 0, 4) = ZipMagic
     THEN /\ fs' = Put(Remove(fs, PathTempDecrypt), dec.output_path, fs[PathTempDecrypt])
          /\ successful_key' = KEYS[dec.ki]
          /\ dec' = [dec EXCEPT !.result = TRUE]
          /\ pc' = ret
     ELSE /\ fs' = Remove(fs, PathTempDecrypt)
          /\ dec' = [dec EXCEPT !.ki = @ + 1]
          /\ pc' = "dec_key"
          /\ UNCHANGED successful_key
  /\ UNCHANGED <<cancel_requested, ret, error, tried>>
  /\ UNCHANGED <<enc, notCipher>>

decrypt_ozip ==
  \/ DecOpen \/ DecKey \/ DecExhausted \/ DecChunk \/ DecChunksDone \/ DecVerify

(***************************************************************************)
(* encrypt_to_ozip                                                         *)
(***************************************************************************)
MsgNoKey == "No successful key found for encryption"

\* A variant that pads by the header size, not up to it.
OzipHeaderLong == Magic \o Zeros(HeaderSize)

\* header = b'OPPOENCRYPT!' + b'\x00' * (0x1050 - 12)
OzipHeader == Magic \o Zeros(HeaderSize - Len(Magic))

EncFrame(zip_path, output_ozip_path) ==
  [zip_path |-> zip_path, output_ozip_path |-> output_ozip_path, f_out |-> FALSE,
   zip_size |-> 0, bytes_processed |-> 0]

\* Entry: without a recorded key the call raises; with one, the output file is
\* opened (created, or emptied) and the header written.
EncOpen ==
  /\ pc = "enc_open"
  /\ IF successful_key = NoKey
     THEN /\ Raise(MsgNoKey)
          /\ UNCHANGED <<fs, enc>>
     ELSE /\ fs' = Put(fs, enc.output_ozip_path, OzipHeader)
          /\ enc' = [enc EXCEPT !.f_out = TRUE, !.zip_size = Len(fs[enc.zip_path]),
                                !.bytes_processed = 0]
          /\ pc' = "enc_chunk"
          /\ UNCHANGED error
  /\ UNCHANGED <<cancel_requested, successful_key, ret, dec, tried>>
  /\ UNCHANGED notCipher

\* One pass of the chunk loop: poll the flag, read a chunk of the archive, pad
\* it when it is no whole number of blocks, encrypt it, write it.
EncChunk ==
  /\ pc = "enc_chunk"
  /\ enc.bytes_processed < enc.zip_size
  /\ IF cancel_requested
     THEN /\ Raise(MsgCancelled)
          /\ UNCHANGED <<fs, enc>>
     ELSE LET read_size == Min(ChunkSize, enc.zip_size - enc.bytes_processed)
              block == ReadAt(fs[enc.zip_path], enc.bytes_processed, read_size)
              encrypted_block == AESEncrypt(unhexlify(successful_key), PadIfNeeded(block))
          IN /\ fs' = Put(fs, enc.output_ozip_path,
                          fs[enc.output_ozip_path] \o encrypted_block)
             /\ enc' = [enc EXCEPT !.bytes_processed = @ + read_size]
             /\ UNCHANGED <<pc, error>>
  /\ UNCHANGED <<cancel_requested, successful_key, ret, dec, tried>>
  /\ UNCHANGED notCipher

\* The archive is consumed: both files are closed and the call returns True.
EncDone ==
  /\ pc = "enc_chunk"
  /\ enc.bytes_processed >= enc.zip_size
  /\ pc' = ret
  /\ UNCHANGED <<fs, cancel_requested, successful_key, ret, error, dec, enc, tried>>
  /\ UNCHANGED notCipher

encrypt_to_ozip == EncOpen \/ EncChunk \/ EncDone

(***************************************************************************)
(* cancel_conversion                                                       *)
(***************************************************************************)
cancel_conversion ==
  /\ cancel_requested' = TRUE
  /\ UNCHANGED <<fs, successful_key, pc, ret, error, dat, dec, enc, since_cancel, tried>>
  /\ UNCHANGED ctlVars

(***************************************************************************)
(* The collaborators of a run: the files the user can choose, the archive  *)
(* library and the brotli codec.                                           *)
(***************************************************************************)
\* A block source of n bytes whose k-th byte is k: every byte tells its position.
Pattern(n) == [k \in 1..n |-> ((k - 1) % 255) + 1]

\* An archive of n bytes: the archive magic, then bytes that tell their position.
Archive(n) == SubSeq(ZipMagic \o Pattern(n), 1, n)

\* A key that is not in the registry.
ForeignKey == [i \in 1..AESBlock |-> i]

\* The containers on disk: one under the first key, one of two chunks under the
\* second key, one under a key the registry lacks, one too small to be a container.
Firmware ==
  ("firmware.ozip" :> OzipHeader \o AESEncrypt(unhexlify(KEYS[1]), PadIfNeeded(Archive(5))))
  @@ ("firmware2.ozip" :>
        OzipHeader \o AESEncrypt(unhexlify(KEYS[2]), PadIfNeeded(Archive(ChunkSize + 5))))
  @@ ("foreign.ozip" :> OzipHeader \o AESEncrypt(ForeignKey, PadIfNeeded(Archive(5))))
  @@ ("small.ozip" :> Zeros(HeaderSize - 1))

\* self.ozip_path.get(): a container on disk, or a path where no file is.
OzipChoices == (DOMAIN Firmware) \cup {"missing.ozip"}

\* brotli.compress and brotli.decompress: a tagged stream that reverses its input,
\* so that neither is the identity and a stream without the tag is no stream.
BrHead == <<206>>

RECURSIVE Reverse(_)
Reverse(s) == IF s = <<>> THEN <<>> ELSE Append(Reverse(Tail(s)), Head(s))

compress(data) == BrHead \o Reverse(data)

IsBrotli(stream) == stream # <<>> /\ SubSeq(stream, 1, 1) = BrHead

decompress(stream) == Reverse(Tail(stream))

\* What an archive can hold: the two files the run looks for, either of them
\* absent, a block stream that is no brotli stream, a manifest without commands.
GoodList == <<"1", "\n", "n", "e", "w", " ", "0", ",", "2", "\n">>

GoodBr == compress(Pattern(2 * BlockSize))

Trees ==
  { [has_br |-> TRUE, br |-> GoodBr, has_list |-> TRUE, list |-> GoodList],
    [has_br |-> FALSE, br |-> <<>>, has_list |-> TRUE, list |-> GoodList],
    [has_br |-> TRUE, br |-> GoodBr, has_list |-> FALSE, list |-> <<>>],
    [has_br |-> TRUE, br |-> <<0>>, has_list |-> TRUE, list |-> GoodList],
    [has_br |-> TRUE, br |-> GoodBr, has_list |-> TRUE, list |-> <<>>] }

\* zip_ref.extractall(output_dir)
extract_zip(files, tree) ==
  LET withBr == IF tree.has_br THEN Put(files, PathBr, tree.br) ELSE files
  IN IF tree.has_list THEN Put(withBr, PathList, tree.list) ELSE withBr

\* find_file(directory, filename), for a file of the extracted tree.
find_file(files, path) == path \in DOMAIN files

\* The sizes the archive library can give the new archive: within one chunk, or more.
NewZipLens == {5, ChunkSize + 5}

MsgDecryptFailed == "Failed to decrypt OZIP file"

MsgBadZip == "File is not a zip file"

MsgNoBr == "system.new.dat.br not found in the extracted files"

MsgBrotli == "brotli: decoder process called with data when accept_more_data() is False"

MsgNoList == "system.transfer.list not found in the extracted files"

(***************************************************************************)
(* start_conversion, on_conversion_finished and the dialogs                *)
(***************************************************************************)
\* temp_dir = None, before the run has made its directory and after it has
\* removed it on success.
NoRun == [temp_dir |-> "", zip_left |-> 0]

PathTemp == "temp_conversion"

\* A variant that starts a worker whether or not one is in progress.
start_conversionUnguarded ==
  /\ \E fields_ok \in BOOLEAN :
       IF ~fields_ok \/ PathCustom \notin DOMAIN fs
       THEN UNCHANGED vars
       ELSE /\ cancel_requested' = FALSE
            /\ conversion_in_progress' = TRUE
            /\ threads' = threads + 1
            /\ pc' = "run_begin"
            /\ run' = NoRun
            /\ error' = ""
            /\ since_cancel' = 0
            /\ rejected' = FALSE
            /\ terminal' = <<>>
            /\ UNCHANGED <<fs, successful_key, after_queue, ret, dat, dec, enc, tried>>

\* A variant that resets the flag before it looks whether a conversion is in progress.
start_conversionResetsFirst ==
  IF conversion_in_progress
  THEN /\ rejected' = TRUE
       /\ cancel_requested' = FALSE
       /\ UNCHANGED <<fs, conversion_in_progress, successful_key, threads, after_queue, run,
                      pc, ret, error, dat, dec, enc, since_cancel, terminal, tried>>
  ELSE \E fields_ok \in BOOLEAN :
         IF ~fields_ok \/ PathCustom \notin DOMAIN fs
         THEN UNCHANGED vars
         ELSE /\ cancel_requested' = FALSE
              /\ conversion_in_progress' = TRUE
              /\ threads' = threads + 1
              /\ pc' = "run_begin"
              /\ run' = NoRun
              /\ error' = ""
              /\ since_cancel' = 0
              /\ rejected' = FALSE
              /\ terminal' = <<>>
              /\ UNCHANGED <<fs, successful_key, after_queue, ret, dat, dec, enc, tried>>

\* A start request.  With a conversion in progress it is refused; with a field
\* empty, the image missing or the disk too full it shows a dialog and returns;
\* otherwise it clears the flag, marks the conversion in progress and starts the
\* worker thread.
start_conversion ==
  IF conversion_in_progress
  THEN /\ rejected' = TRUE
       /\ UNCHANGED <<fs, conversion_in_progress, cancel_requested, successful_key, threads,
                      after_queue, run, pc, ret, error, dat, dec, enc, since_cancel,
                      terminal, tried>>
  ELSE \E fields_ok \in BOOLEAN :
         IF ~fields_ok \/ PathCustom \notin DOMAIN fs
         THEN UNCHANGED vars
         ELSE /\ cancel_requested' = FALSE
              /\ conversion_in_progress' = TRUE
              /\ threads' = threads + 1
              /\ pc' = "run_begin"
              /\ run' = NoRun
              /\ error' = ""
              /\ since_cancel' = 0
              /\ rejected' = FALSE
              /\ terminal' = <<>>
              /\ UNCHANGED <<fs, successful_key, after_queue, ret, dat, dec, enc, tried>>

\* A variant that leaves the conversion marked in progress.
on_conversion_finishedKeepsFlag ==
  /\ after_queue # <<>>
  /\ Head(after_queue) = "on_conversion_finished"
  /\ after_queue' = Tail(after_queue)
  /\ UNCHANGED <<fs, conversion_in_progress, cancel_requested, successful_key, threads, run,
                 pc, ret, error, dat, dec, enc, since_cancel, rejected, terminal, tried>>

\* The event loop runs the oldest callback; this one is on_conversion_finished.
on_conversion_finished ==
  /\ after_queue # <<>>
  /\ Head(after_queue) = "on_conversion_finished"
  /\ after_queue' = Tail(after_queue)
  /\ conversion_in_progress' = FALSE
  /\ UNCHANGED <<fs, cancel_requested, successful_key, threads, run, pc, ret, error, dat,
                 dec, enc, since_cancel, rejected, terminal, tried>>

\* The event loop runs the oldest callback; this one shows the success or the
\* failure dialog.  The failure dialog reads the exception variable, which the
\* worker unbinds when its except clause ends: the callback shows the reason when
\* it runs before that and raises NameError when it runs after; either way it
\* is consumed and changes nothing the program keeps.
show_message ==
  /\ after_queue # <<>>
  /\ Head(after_queue) \in {"showinfo", "showerror"}
  /\ after_queue' = Tail(after_queue)
  /\ UNCHANGED <<fs, conversion_in_progress, cancel_requested, successful_key, threads, run,
                 pc, ret, error, dat, dec, enc, since_cancel, rejected, terminal, tried>>

(***************************************************************************)
(* run_conversion: the worker thread                                       *)
(***************************************************************************)
\* The terminal messages: success with the output path and the key used, failure
\* with the reason.
Success(output_ozip, key) == [kind |-> "Success", output |-> output_ozip, key |-> key]

Failure(reason) == [kind |-> "Failure", reason |-> reason]

\* What no step of run_conversion's own body changes.
notRun == <<conversion_in_progress, cancel_requested, successful_key, threads, since_cancel,
            rejected, tried>>

\* if self.cancel_requested: raise Exception("Conversion cancelled by user")
Cancelled == cancel_requested /\ Raise(MsgCancelled)

\* The thread begins: the temporary directory is emptied and made.
RunBegin ==
  /\ pc = "run_begin"
  /\ fs' = rmtree(fs)
  /\ run' = [run EXCEPT !.temp_dir = PathTemp]
  /\ dat' = DatFrame("", "", "")
  /\ dec' = DecFrame("", "")
  /\ enc' = EncFrame("", "")
  /\ pc' = "step1"
  /\ UNCHANGED <<after_queue, ret, error>>
  /\ UNCHANGED <<notRun, terminal>>

\* Step 1 calls decrypt_ozip on the container chosen in the form.
Step1 ==
  /\ pc = "step1"
  /\ \/ Cancelled /\ UNCHANGED <<dec, ret>>
     \/ /\ ~cancel_requested
        /\ \E ozip \in OzipChoices : dec' = DecFrame(ozip, PathDecrypted)
        /\ pc' = "dec_open"
        /\ ret' = "step1_ret"
        /\ UNCHANGED error
  /\ UNCHANGED <<fs, after_queue, run, dat, enc>>
  /\ UNCHANGED <<notRun, terminal>>

\* decrypt_ozip has returned: False is turned into an exception.
Step1Ret ==
  /\ pc = "step1_ret"
  /\ IF dec.result THEN pc' = "step2" /\ UNCHANGED error ELSE Raise(MsgDecryptFailed)
  /\ UNCHANGED <<fs, after_queue, run, ret, dat, dec, enc>>
  /\ UNCHANGED <<notRun, terminal>>

\* Step 2 extracts the decrypted archive: the library refuses it, or unpacks a tree.
Step2 ==
  /\ pc = "step2"
  /\ \/ Cancelled /\ UNCHANGED fs
     \/ ~cancel_requested /\ Raise(MsgBadZip) /\ UNCHANGED fs
     \/ /\ ~cancel_requested
        /\ \E tree \in Trees : fs' = extract_zip(fs, tree)
        /\ pc' = "step3"
        /\ UNCHANGED error
  /\ UNCHANGED <<after_queue, run, ret, dat, dec, enc>>
  /\ UNCHANGED <<notRun, terminal>>

\* Step 3 finds system.new.dat.br and decompresses it.
Step3 ==
  /\ pc = "step3"
  /\ \/ Cancelled /\ UNCHANGED fs
     \/ /\ ~cancel_requested
        /\ IF ~find_file(fs, PathBr) THEN Raise(MsgNoBr) /\ UNCHANGED fs
           ELSE IF ~IsBrotli(fs[PathBr]) THEN Raise(MsgBrotli) /\ UNCHANGED fs
           ELSE /\ fs' = Put(fs, PathDat, decompress(fs[PathBr]))
                /\ pc' = "step4"
                /\ UNCHANGED error
  /\ UNCHANGED <<after_queue, run, ret, dat, dec, enc>>
  /\ UNCHANGED <<notRun, terminal>>

\* Step 4 finds system.transfer.list and calls convert_dat_to_img.
Step4 ==
  /\ pc = "step4"
  /\ \/ Cancelled /\ UNCHANGED <<dat, ret>>
     \/ /\ ~cancel_requested
        /\ IF ~find_file(fs, PathList) THEN Raise(MsgNoList) /\ UNCHANGED <<dat, ret>>
           ELSE /\ dat' = DatFrame(PathList, PathDat, PathImg)
                /\ pc' = "dat_open"
                /\ ret' = "step5"
                /\ UNCHANGED error
  /\ UNCHANGED <<fs, after_queue, run, dec, enc>>
  /\ UNCHANGED <<notRun, terminal>>

\* Step 5 makes the new block stream and manifest from the custom image.
Step5 ==
  /\ pc = "step5"
  /\ \/ Cancelled /\ UNCHANGED fs
     \/ /\ ~cancel_requested
        /\ fs' = convert_img_to_dat(fs, PathCustom, PathNewList, PathNewDat)
        /\ pc' = "step6"
        /\ UNCHANGED error
  /\ UNCHANGED <<after_queue, run, ret, dat, dec, enc>>
  /\ UNCHANGED <<notRun, terminal>>

\* A variant that compresses without polling the flag.
Step6NoPoll ==
  /\ pc = "step6"
  /\ fs' = Put(fs, PathNewBr, compress(fs[PathNewDat]))
  /\ pc' = "step7"
  /\ UNCHANGED <<after_queue, run, ret, error, dat, dec, enc>>
  /\ UNCHANGED <<notRun, terminal>>

\* Step 6 compresses the new block stream.
Step6 ==
  /\ pc = "step6"
  /\ \/ Cancelled /\ UNCHANGED fs
     \/ /\ ~cancel_requested
        /\ fs' = Put(fs, PathNewBr, compress(fs[PathNewDat]))
        /\ pc' = "step7"
        /\ UNCHANGED error
  /\ UNCHANGED <<after_queue, run, ret, dat, dec, enc>>
  /\ UNCHANGED <<notRun, terminal>>

\* Step 7 removes the old stream and manifest from the extracted tree and copies
\* the new ones in their place.
Step7 ==
  /\ pc = "step7"
  /\ \/ Cancelled /\ UNCHANGED fs
     \/ /\ ~cancel_requested
        /\ fs' = Put(Put(Remove(Remove(fs, PathBr), PathList), PathBr, fs[PathNewBr]),
                     PathList, fs[PathNewList])
        /\ pc' = "step8"
        /\ UNCHANGED error
  /\ UNCHANGED <<after_queue, run, ret, dat, dec, enc>>
  /\ UNCHANGED <<notRun, terminal>>

\* Step 8 opens the new archive and walks the extracted tree.
Step8 ==
  /\ pc = "step8"
  /\ \/ Cancelled /\ UNCHANGED <<fs, run>>
     \/ /\ ~cancel_requested
        /\ fs' = Put(fs, PathNewZip, <<>>)
        /\ run' = [run EXCEPT !.zip_left = Cardinality({PathBr, PathList} \cap DOMAIN fs)]
        /\ pc' = "zip_loop"
        /\ UNCHANGED error
  /\ UNCHANGED <<after_queue, ret, dat, dec, enc>>
  /\ UNCHANGED <<notRun, terminal>>

\* create_zip, one file: the flag is polled, then the file is added.
ZipFile ==
  /\ pc = "zip_loop"
  /\ run.zip_left > 0
  /\ \/ Cancelled /\ UNCHANGED run
     \/ /\ ~cancel_requested
        /\ run' = [run EXCEPT !.zip_left = @ - 1]
        /\ UNCHANGED <<pc, error>>
  /\ UNCHANGED <<fs, after_queue, ret, dat, dec, enc>>
  /\ UNCHANGED <<notRun, terminal>>

\* create_zip, the walk is over: the archive is closed, with the size the library gave it.
ZipDone ==
  /\ pc = "zip_loop"
  /\ run.zip_left = 0
  /\ \E n \in NewZipLens : fs' = Put(fs, PathNewZip, Archive(n))
  /\ pc' = "step9"
  /\ UNCHANGED <<after_queue, run, ret, error, dat, dec, enc>>
  /\ UNCHANGED <<notRun, terminal>>

\* Step 9 calls encrypt_to_ozip on the new archive, into the output directory.
Step9 ==
  /\ pc = "step9"
  /\ \/ Cancelled /\ UNCHANGED <<enc, ret>>
     \/ /\ ~cancel_requested
        /\ enc' = EncFrame(PathNewZip, PathOut)
        /\ pc' = "enc_open"
        /\ ret' = "cleanup"
        /\ UNCHANGED error
  /\ UNCHANGED <<fs, after_queue, run, dat, dec>>
  /\ UNCHANGED <<notRun, terminal>>

\* The end of the try block: the temporary directory is removed, temp_dir is
\* None, the success message is logged and the success dialog is handed to the
\* event loop.
RunCleanup ==
  /\ pc = "cleanup"
  /\ fs' = rmtree(fs)
  /\ run' = [run EXCEPT !.temp_dir = ""]
  /\ terminal' = Append(terminal, Success(PathOut, successful_key))
  /\ after_queue' = Append(after_queue, "showinfo")
  /\ pc' = "finally"
  /\ UNCHANGED <<ret, error, dat, dec, enc>>
  /\ UNCHANGED notRun

\* A variant that logs nothing and hands no dialog to the event loop.
RunExceptSilent ==
  /\ pc = "except"
  /\ pc' = "finally"
  /\ UNCHANGED <<fs, after_queue, run, ret, error, dat, dec, enc>>
  /\ UNCHANGED <<notRun, terminal>>

\* except Exception: the failure message with the reason is logged and the
\* failure dialog is handed to the event loop.
RunExcept ==
  /\ pc = "except"
  /\ terminal' = Append(terminal, Failure(error))
  /\ after_queue' = Append(after_queue, "showerror")
  /\ pc' = "finally"
  /\ UNCHANGED <<fs, run, ret, error, dat, dec, enc>>
  /\ UNCHANGED notRun

\* A variant that leaves the temporary directory where it is.
RunFinallyKeepsTemp ==
  /\ pc = "finally"
  /\ after_queue' = Append(after_queue, "on_conversion_finished")
  /\ threads' = threads - 1
  /\ pc' = "idle"
  /\ UNCHANGED <<fs, conversion_in_progress, cancel_requested, successful_key, run, ret,
                 error, dat, dec, enc, since_cancel, rejected, terminal, tried>>

\* finally: the temporary directory, when temp_dir still names it, is removed;
\* on_conversion_finished is handed to the event loop; the thread ends.
RunFinally ==
  /\ pc = "finally"
  /\ fs' = IF run.temp_dir # "" THEN rmtree(fs) ELSE fs
  /\ after_queue' = Append(after_queue, "on_conversion_finished")
  /\ threads' = threads - 1
  /\ pc' = "idle"
  /\ UNCHANGED <<conversion_in_progress, cancel_requested, successful_key, run, ret, error,
                 dat, dec, enc, since_cancel, rejected, terminal, tried>>

run_conversion ==
  \/ RunBegin \/ Step1 \/ Step1Ret \/ Step2 \/ Step3 \/ Step4 \/ Step5 \/ Step6 \/ Step7
  \/ Step8 \/ ZipFile \/ ZipDone \/ Step9 \/ RunCleanup \/ RunExcept \/ RunFinally
  \/ decrypt_ozip \/ convert_dat_to_img \/ encrypt_to_ozip

(***************************************************************************)
(* The program: the form with its files chosen, no conversion started.     *)
(***************************************************************************)
\* The custom images on disk, and what an earlier use may have left at the output path.
CustomImages == {Pattern(BlockSize + 1), <<>>}

OldOutputs == {<<>>, Pattern(3)}

Init ==
  /\ \E img \in CustomImages, old \in OldOutputs :
       fs = IF old = <<>> THEN Firmware @@ (PathCustom :> img)
            ELSE Firmware @@ (PathCustom :> img) @@ (PathOut :> old)
  /\ conversion_in_progress = FALSE
  /\ cancel_requested = FALSE
  /\ successful_key = NoKey
  /\ threads = 0
  /\ after_queue = <<>>
  /\ run = NoRun
  /\ pc = "idle"
  /\ ret = "idle"
  /\ error = ""
  /\ dat = DatFrame("", "", "")
  /\ dec = DecFrame("", "")
  /\ enc = EncFrame("", "")
  /\ since_cancel = 0
  /\ rejected = FALSE
  /\ terminal = <<>>
  /\ tried = <<>>

Next ==
  \/ start_conversion
  \/ cancel_conversion
  \/ on_conversion_finished
  \/ show_message
  \/ run_conversion

Spec == Init /\ [][Next]_vars

\* The steps of the worker thread other than the three that read a whole
\* manifest or run the cipher over a chunk.
WorkerSteps ==
  \/ RunBegin \/ Step1 \/ Step1Ret \/ Step2 \/ Step3 \/ Step4 \/ Step5 \/ Step6 \/ Step7
  \/ Step8 \/ ZipFile \/ ZipDone \/ Step9 \/ RunCleanup \/ RunExcept \/ RunFinally
  \/ DecOpen \/ DecKey \/ DecExhausted \/ DecChunksDone \/ DecVerify
  \/ DatCmd \/ DatDone \/ DatRange \/ DatRangesDone \/ DatBlock \/ DatBlocksDone
  \/ EncOpen \/ EncDone

\* The same program with its scheduling: a thread that can take a step
\* eventually takes one, and the event loop eventually runs a callback handed
\* to it.  For DatOpen, DecChunk and EncChunk weak fairness is written out,
\* with the guard of the action in the place of ENABLED: each is its guard and
\* assignments to the primed variables, so it is enabled exactly where its
\* guard holds.
SpecFair ==
  /\ Init
  /\ [][Next]_vars
  /\ WF_vars(WorkerSteps)
  /\ ([]<>(pc # "dat_open") \/ []<><<DatOpen>>_vars)
  /\ ([]<>(~(pc = "dec_chunk" /\ dec.bytes_decrypted < dec.encrypted_size))
        \/ []<><<DecChunk>>_vars)
  /\ ([]<>(~(pc = "enc_chunk" /\ enc.bytes_processed < enc.zip_size))
        \/ []<><<EncChunk>>_vars)
  /\ WF_vars(show_message)
  /\ WF_vars(on_conversion_finished)

(***************************************************************************)
(* Properties of the run                                                   *)
(***************************************************************************)
\* The worker has ended a run, and the run ended by the cancellation exception.
EndedCancelled == pc = "idle" /\ threads = 0 /\ error = MsgCancelled

\* C3: cancellation leaves no output.  When a run in which the cancel request
\* was observed has ended as cancelled, no output container that this run opened
\* exists, at whatever stage the request was observed, the encryption stage included.
C3_CancelLeavesNoOutput ==
  (EndedCancelled /\ enc.f_out) => enc.output_ozip_path \notin DOMAIN fs

\* C5: single flight.  Under every interleaving of start requests, cancel
\* requests, worker steps and the finish callback at most one worker thread is
\* active, it is active only while the conversion is marked in progress, and no
\* step taken while a conversion is in progress starts a worker.
C5_SingleFlight ==
  /\ [](threads <= 1 /\ (threads = 1 => conversion_in_progress))
  /\ [][conversion_in_progress => threads' <= threads]_vars

\* A start request has been refused while the worker of the conversion in
\* progress is still active.
C5_Witness == threads = 1 /\ conversion_in_progress /\ rejected /\ pc # "idle"

\* A run ends with this step: the worker leaves its last statement.
RunEnds == pc # "idle" /\ pc' = "idle"

\* The dialogs handed to the event loop and not yet shown.
Dialogs == SelectSeq(after_queue, LAMBDA cb : cb \in {"showinfo", "showerror"})

\* C12: exactly one terminal outcome.  A run never emits more than one terminal
\* message, and when it ends it has emitted exactly one: the success message
\* with the output path and the key used when nothing was raised, the failure
\* message with the reason when something was, cancellation included.
C12_OneTerminalMessage ==
  /\ [](Len(terminal) <= 1 /\ Len(Dialogs) <= 1)
  /\ [][RunEnds =>
         /\ Len(terminal') = 1
         /\ IF error' = ""
            THEN terminal'[1] = Success(PathOut, successful_key')
            ELSE terminal'[1] = Failure(error')]_vars

\* A cancelled run has ended, with the failure message of the cancellation.
C12_Witness ==
  /\ pc = "idle"
  /\ threads = 0
  /\ terminal = <<Failure(MsgCancelled)>>

\* The worker is at the boundary before one of the nine stages.
StageBoundaries ==
  {"step1", "step2", "step3", "step4", "step5", "step6", "step7", "step8", "step9"}

workerVars == <<fs, successful_key, pc, ret, error, dat, dec, enc, run, tried>>

\* C15: the cancel flag is one-shot and monotonic within a run.  While a worker
\* is active the flag never goes from set back to clear; and no step of the
\* worker writes it: a step that changes the flag is a cancel request, which
\* changes nothing of the worker's, or an accepted start request, which is taken
\* with no conversion in progress and no worker active.
C15_FlagMonotonic ==
  /\ [][(threads >= 1 /\ cancel_requested) => cancel_requested']_vars
  /\ [][(cancel_requested' # cancel_requested) =>
          \/ cancel_requested' /\ UNCHANGED workerVars
          \/ ~cancel_requested' /\ threads = 0 /\ ~conversion_in_progress
                /\ conversion_in_progress']_vars

\* A start request has been refused while the worker is active and the flag is
\* set: the flag is still set.
C15_Witness ==
  /\ threads = 1
  /\ pc \notin {"idle", "run_begin"}
  /\ cancel_requested
  /\ rejected

\* Nothing is left under temp_conversion.
TempGone == TempPaths \cap DOMAIN fs = {}

\* C18: unified cleanup.  Every run, however it ends, ends by the step that
\* leaves the finally clause: the worker reaches it from the success path and
\* from the except clause alike, and after it nothing is left of the temporary
\* directory and on_conversion_finished is the newest callback handed to the
\* event loop.
C18_UnifiedCleanup ==
  /\ [][RunEnds =>
          /\ pc = "finally"
          /\ TempGone'
          /\ after_queue' = Append(after_queue, "on_conversion_finished")]_vars
  /\ [](pc = "idle" => TempGone)

\* A run that failed at stage 4, with files in its temporary directory, has
\* ended: the directory is gone and the two callbacks are waiting.
C18_Witness ==
  /\ pc = "idle"
  /\ threads = 0
  /\ error = MsgNoList
  /\ TempGone
  /\ after_queue = <<"showerror", "on_conversion_finished">>

\* No conversion is in progress and no worker is left: a start request is accepted.
Startable == ~conversion_in_progress /\ threads = 0 /\ pc = "idle"

\* C19: no stuck in-progress state.  With the worker and the event loop
\* scheduled fairly, every run that was started ends, and the conversion in
\* progress is eventually marked finished, which is when a start request is
\* accepted again; the mark is cleared only when the worker has ended and has
\* removed its temporary directory.
C19_NoStuckInProgress ==
  /\ (threads = 1) ~> (threads = 0)
  /\ conversion_in_progress ~> Startable
  /\ [][(conversion_in_progress /\ ~conversion_in_progress') =>
          (threads = 0 /\ pc = "idle" /\ TempGone)]_vars

\* A start request has been accepted after an earlier run recorded its key and
\* was marked finished.
C19_Witness ==
  /\ conversion_in_progress
  /\ threads = 1
  /\ pc = "run_begin"
  /\ successful_key # NoKey

(***************************************************************************)
(* The codec on its own: convert_dat_to_img on enumerated manifests and    *)
(* block sources, and convert_img_to_dat followed by convert_dat_to_img on *)
(* enumerated images.                                                      *)
(***************************************************************************)
\* Command lines of the enumerated manifests.
VocabLines ==
  { <<"n", "e", "w", " ", "0", ",", "2">>,                       \* new 0,2
    <<"z", "e", "r", "o", " ", "0", ",", "1">>,                  \* zero 0,1
    <<"e", "r", "a", "s", "e", " ", "1", ",", "3">>,             \* erase 1,3
    <<"n", "e", "w", " ", "0", ",", "4">>,                       \* new 0,4
    <<"n", "e", "w", " ", "2", ",", "3", ",", "0", ",", "1">>,   \* new 2,3,0,1
    <<"n", "e", "w", " ", "0", ",", "x">>,                       \* new 0,x
    <<"z", "e", "r", "o", " ", "0", ",", "1", ",", "2">>,        \* zero 0,1,2
    <<"#", " ", "n", "e", "w", " ", "0", ",", "1">>,             \* # new 0,1
    <<"m", "o", "v", "e", " ", "0", ",", "1">>,                  \* move 0,1
    <<"z", "e", "r", "o", " ", "0", ",", "-", "1">>,             \* zero 0,-1
    <<"n", "e", "w", " ", "-", "1", ",", "1">>,                  \* new -1,1
    <<"n", "e", "w", " ", "3", ",", "1">> }                      \* new 3,1

\* Headers: version 1, version 4 with its three lines, a version that is no number.
VocabHeaders ==
  { <<"1", "\n">>,
    <<"4", "\n", "2", "\n", "0", "\n", "0", "\n">>,
    <<"x", "\n">> }

RECURSIVE JoinLines(_)
JoinLines(ls) == IF ls = <<>> THEN <<>> ELSE Head(ls) \o NL \o JoinLines(Tail(ls))

LineSeqs == UNION {[1..n -> VocabLines] : n \in 0..MaxCmdLines}

\* The enumerated manifests: every header before at most one command line, the
\* version 1 header before every sequence of command lines, and the empty file.
Documents ==
  {h \o JoinLines(ls) : h \in VocabHeaders, ls \in {l \in LineSeqs : Len(l) <= 1}}
  \cup {<<"1", "\n">> \o JoinLines(ls) : ls \in LineSeqs}
  \cup {<<>>}

\* Sources of 0..MaxDatBlocks whole blocks, and the same with one byte more.
Sources == {Pattern(b * BlockSize + t) : b \in 0..MaxDatBlocks, t \in {0, 1}}

\* The enumerated images: every byte sequence over {0, 1} up to MaxImgBlocks
\* blocks, aligned or not, and two long ones (a block count of two digits).
Images ==
  UNION {[1..n -> {0, 1}] : n \in 0..(MaxImgBlocks * BlockSize)}
  \cup {Pattern(LongBlocks * BlockSize), Pattern(LongBlocks * BlockSize + 1)}

\* A call made on its own: no run, no controller state, the flag clear.
UnitInit ==
  /\ conversion_in_progress = FALSE
  /\ cancel_requested = FALSE
  /\ threads = 0
  /\ after_queue = <<>>
  /\ run = NoRun
  /\ rejected = FALSE
  /\ terminal = <<>>
  /\ ret = "halt"
  /\ error = ""
  /\ since_cancel = 0
  /\ tried = <<>>

InitDecode ==
  /\ \E doc \in Documents, src \in Sources :
       fs = (PathList :> doc) @@ (PathDat :> src)
  /\ pc = "dat_open"
  /\ dat = DatFrame(PathList, PathDat, PathImg)

InitRoundTrip ==
  /\ \E img \in Images : fs = (PathCustom :> img)
  /\ pc = "encode"
  /\ dat = DatFrame(PathNewList, PathNewDat, PathBack)

InitCodec ==
  /\ InitDecode \/ InitRoundTrip
  /\ UnitInit
  /\ dec = DecFrame("", "")
  /\ enc = EncFrame("", "")
  /\ successful_key = NoKey

\* The encode half of the round trip; the decode half follows on its output.
RoundTripEncode ==
  /\ pc = "encode"
  /\ fs' = convert_img_to_dat(fs, PathCustom, PathNewList, PathNewDat)
  /\ pc' = "dat_open"
  /\ UNCHANGED <<cancel_requested, ret, error, dat, since_cancel>>
  /\ UNCHANGED notCodec

NextCodec == convert_dat_to_img \/ RoundTripEncode \/ cancel_conversion

SpecCodec == InitCodec /\ [][NextCodec]_vars

(***************************************************************************)
(* Properties of the codec                                                 *)
(***************************************************************************)
Done == pc = "halt"

Source == fs[dat.dat_path]

Image == fs[dat.output_img_path]

\* Byte i (1..BlockSize) of block b (0-based) of a file.
ByteOf(content, b, i) == content[b * BlockSize + i]

\* The blocks a range covers, in order.
BlocksOf(range) == [j \in 1..Max(0, range[2] - range[1]) |-> range[1] + j - 1]

\* The block writes of a command sequence in document order, then range
\* order, then block order.  k counts the blocks written by `new` commands
\* before this one (-1 for a write of an erase/zero command).
RECURSIVE WritesFrom(_, _, _, _)
WritesFrom(commands, c, r, k) ==
  IF c > Len(commands) THEN <<>>
  ELSE IF r > Len(commands[c].ranges) THEN WritesFrom(commands, c + 1, 1, k)
  ELSE LET bs == BlocksOf(commands[c].ranges[r])
           isNew == commands[c].cmd = CmdNew
       IN [j \in 1..Len(bs) |->
             [c |-> c, block |-> bs[j], k |-> IF isNew THEN k + j - 1 ELSE 0 - 1]]
          \o WritesFrom(commands, c, r + 1, IF isNew THEN k + Len(bs) ELSE k)

Writes == WritesFrom(dat.commands, 1, 1, 0)

\* Byte i of the k-th block (0-based) of the source, 0 where the source has ended.
SourceByte(k, i) ==
  IF k * BlockSize + i <= Len(Source) THEN Source[k * BlockSize + i] ELSE 0

\* What a write puts at byte i of its block.
WrittenByte(w, i) == IF w.k < 0 THEN 0 ELSE SourceByte(w.k, i)

\* The commands with a range covering block b.
Covering(b) == {Writes[n].c : n \in {m \in 1..Len(Writes) : Writes[m].block = b}}

\* The last write to block b.
LastWrite(b) ==
  Writes[CHOOSE n \in 1..Len(Writes) :
           Writes[n].block = b /\ \A m \in (n + 1)..Len(Writes) : Writes[m].block # b]

\* The largest `end` over all ranges of all commands (0 when there is no range).
Ends ==
  UNION {{dat.commands[c].ranges[r][2] : r \in 1..Len(dat.commands[c].ranges)} :
           c \in 1..Len(dat.commands)}

Extent == IF Ends = {} THEN 0 ELSE CHOOSE m \in Ends : \A e \in Ends : e <= m

\* convert_dat_to_img has parsed and opened, and has not raised.
Materializing == pc \in {"dat_cmd", "dat_range", "dat_block"}

\* C1: round trip.  For every image whose length is a multiple of the block size
\* (0 included), convert_img_to_dat followed by parse_transfer_list and
\* convert_dat_to_img gives back the image byte for byte.
C1_RoundTrip ==
  (Done /\ dat.output_img_path = PathBack /\ Len(fs[PathCustom]) % BlockSize = 0)
    => fs[PathBack] = fs[PathCustom]

\* An aligned image of LongBlocks blocks has made the round trip.
C1_Witness ==
  /\ Done
  /\ dat.output_img_path = PathBack
  /\ Len(fs[PathCustom]) = LongBlocks * BlockSize
  /\ fs[PathBack] = fs[PathCustom]

\* C4: cancellation latency in the block copy.  Once the cancel flag is set while
\* the blocks of a `new` command are copied, at most one further block is copied.
C4_OneBlockLatency == since_cancel <= 1

\* The command lines of a manifest: those after the header lines.
CommandLines(text) ==
  LET lines == readlines(text)
  IN IF lines = <<>> THEN <<>> ELSE SubSeq(lines, FirstCommandLine(lines), Len(lines))

\* A line that names one of the three commands and carries a second field.
IsCommandLine(raw) ==
  LET line == strip(raw)
  IN /\ line # <<>>
     /\ Head(line) # "#"
     /\ Len(split(line, " ")) >= 2
     /\ split(line, " ")[1] \in {CmdErase, CmdNew, CmdZero}

\* Its range list is malformed: an odd number of values, or a value that is no integer.
MalformedRanges(raw) ==
  LET ranges == split(split(strip(raw), " ")[2], ",")
  IN Len(ranges) % 2 # 0 \/ \E j \in 1..Len(ranges) : ~IsInt(ranges[j])

WellFormedLines(text) ==
  {n \in 1..Len(CommandLines(text)) :
     /\ IsCommandLine(CommandLines(text)[n])
     /\ ~MalformedRanges(CommandLines(text)[n])}

\* C6: manifest tolerance.  Every command line with a malformed range list (odd
\* number of values, or a value that is no integer) contributes no command: the
\* parsed commands are exactly those of the well-formed command lines.
C6_MalformedSkipped ==
  Materializing =>
    Len(dat.commands) = Cardinality(WellFormedLines(fs[dat.transfer_list_path]))

\* C7: last writer wins.  Once convert_dat_to_img has applied the commands in
\* document order, every block covered by ranges of more than one command holds
\* what the last such command wrote.
C7_LastWriterWins ==
  Done =>
    \A n \in 1..Len(Writes) :
      Cardinality(Covering(Writes[n].block)) >= 2 =>
        \A i \in 1..BlockSize :
          ByteOf(Image, Writes[n].block, i) = WrittenByte(LastWrite(Writes[n].block), i)

\* `new 0,2` then `zero 0,1` on two source blocks or more: block 0 is zero and
\* block 1 holds the second source block.
C7_Witness ==
  /\ Done
  /\ dat.output_img_path = PathImg
  /\ dat.commands = <<[cmd |-> CmdNew, ranges |-> <<<<0, 2>>>>],
                      [cmd |-> CmdZero, ranges |-> <<<<0, 1>>>>]>>
  /\ Len(Source) >= 2 * BlockSize
  /\ \A i \in 1..BlockSize :
       ByteOf(Image, 0, i) = 0 /\ ByteOf(Image, 1, i) = Source[BlockSize + i]

\* A manifest convert_dat_to_img raises on for a reason other than its source.
RaisesAnyway ==
  \/ cancel_requested
  \/ parse_transfer_list(fs[dat.transfer_list_path]) = <<>>
  \/ \E c \in 1..Len(dat.commands) : \E r \in 1..Len(dat.commands[c].ranges) :
       dat.commands[c].ranges[r][1] < 0

\* C8: truncated source.  When the source runs out before the `new` commands are
\* satisfied, convert_dat_to_img completes without error, and every byte of a
\* `new` range for which no source byte remains is zero in the output.
C8_TruncatedZeroFilled ==
  /\ pc = "except" => RaisesAnyway
  /\ Done =>
       \A n \in 1..Len(Writes) :
         Writes[n].k >= 0 =>
           \A i \in 1..BlockSize :
             Writes[n].k * BlockSize + i > Len(Source) =>
               ByteOf(Image, Writes[n].block, i) = 0

\* `new 0,4` with two source blocks: blocks 0-1 from the source, blocks 2-3 zero.
C8_Witness ==
  /\ Done
  /\ dat.output_img_path = PathImg
  /\ dat.commands = <<[cmd |-> CmdNew, ranges |-> <<<<0, 4>>>>]>>
  /\ Len(Source) = 2 * BlockSize
  /\ SubSeq(Image, 1, 2 * BlockSize) = Source
  /\ SubSeq(Image, 2 * BlockSize + 1, 4 * BlockSize) = Zeros(2 * BlockSize)

RECURSIVE SumBlocks(_)
SumBlocks(ranges) ==
  IF ranges = <<>> THEN 0
  ELSE Max(0, Head(ranges)[2] - Head(ranges)[1]) + SumBlocks(Tail(ranges))

\* The blocks the `new` commands among the first n commands ask for.
RECURSIVE NewBlocksOf(_, _)
NewBlocksOf(commands, n) ==
  IF n = 0 THEN 0
  ELSE NewBlocksOf(commands, n - 1)
       + (IF commands[n].cmd = CmdNew THEN SumBlocks(commands[n].ranges) ELSE 0)

\* The blocks `new` commands have written so far, in document, range and block order.
NewBlocksWritten ==
  NewBlocksOf(dat.commands, dat.ci - 1)
  + (IF pc \in {"dat_range", "dat_block"}
     THEN SumBlocks(SubSeq(CurCmd.ranges, 1, dat.ri - 1)) ELSE 0)
  + (IF pc = "dat_block" THEN dat.bi ELSE 0)

\* Block k (from 1) of the source, zero-filled where the source has ended.
SourceBlock(k) ==
  [i \in 1..BlockSize |->
     IF (k - 1) * BlockSize + i <= Len(Source) THEN Source[(k - 1) * BlockSize + i] ELSE 0]

\* C17: shared source cursor.  The source is read by one cursor that only
\* `new` commands advance, one block per block they write: it stands after as
\* many blocks as `new` commands have written so far (or at the end of the
\* source), whatever erase and zero commands came between; and the k-th block
\* a `new` command writes is the k-th block of the source.
C17_SharedCursor ==
  /\ []((pc \in {"dat_cmd", "dat_range", "dat_block"} \/ (Done /\ dat.commands # <<>>)) =>
         dat.dat_pos = Min(NewBlocksWritten * BlockSize, Len(Source)))
  /\ [][(pc = "dat_block" /\ dat'.bi = dat.bi + 1) =>
          /\ SubSeq(fs'[dat.output_img_path], dat.img_pos + 1, dat.img_pos + BlockSize)
               = SourceBlock(NewBlocksWritten + 1)
          /\ fs'[dat.dat_path] = fs[dat.dat_path]]_vars
  /\ [][(pc = "dat_cmd" /\ pc' = "dat_cmd") => dat'.dat_pos = dat.dat_pos]_vars

\* A zero command and then a `new` command of two blocks have been applied:
\* the cursor stands after two blocks of the source.
C17_Witness ==
  /\ Done
  /\ Len(dat.commands) = 2
  /\ dat.commands[1].cmd = CmdZero
  /\ dat.commands[2].cmd = CmdNew
  /\ dat.dat_pos = 2 * BlockSize

(***************************************************************************)
(* The cipher on its own: decrypt_ozip on enumerated containers, and       *)
(* encrypt_to_ozip on enumerated archives and keys.                        *)
(***************************************************************************)
\* The largest enumerated archive, in chunks.
MaxChunks == 2

ArchiveLens ==
  {0, 5, AESBlock} \cup {c * ChunkSize + t : c \in 1..MaxChunks, t \in {0, 5}}

Archives == {Archive(n) : n \in ArchiveLens}

\* The registry indices the enumerated containers are made with.
TrialIndices == {1, 2, 10, 13, Len(KEYS)}

TrialKeys == {unhexlify(KEYS[i]) : i \in TrialIndices} \cup {ForeignKey}

\* Container bodies: an archive or a plain file under a key, whole or cut short.
Bodies ==
  LET whole == {AESEncrypt(key, PadIfNeeded(plain)) :
                  key \in TrialKeys, plain \in Archives \cup {Pattern(AESBlock)}}
  IN whole \cup {SubSeq(b, 1, Len(b) - 3) : b \in {w \in whole : Len(w) = AESBlock}}

\* Containers: a body behind a header, with the magic or without; and one too small.
Containers ==
  {h \o b : h \in {OzipHeader, Zeros(HeaderSize)}, b \in Bodies}
  \cup {Zeros(HeaderSize - 1)}

InitDecrypt ==
  /\ \E ozip \in Containers : fs = (PathOzip :> ozip)
  /\ pc = "dec_open"
  /\ dec = DecFrame(PathOzip, PathDecrypted)
  /\ enc = EncFrame("", "")
  /\ successful_key = NoKey

InitEncrypt ==
  /\ \E zip \in Archives, old \in {<<>>, Pattern(3)} :
       fs = IF old = <<>> THEN (PathNewZip :> zip)
            ELSE (PathNewZip :> zip) @@ (PathOut :> old)
  /\ pc = "enc_open"
  /\ dec = DecFrame("", "")
  /\ enc = EncFrame(PathNewZip, PathOut)
  /\ successful_key \in {NoKey, KEYS[1], KEYS[Len(KEYS)]}

InitCipher ==
  /\ InitDecrypt \/ InitEncrypt
  /\ UnitInit
  /\ dat = DatFrame("", "", "")

NextCipher == decrypt_ozip \/ encrypt_to_ozip \/ cancel_conversion

SpecCipher == InitCipher /\ [][NextCipher]_vars

(***************************************************************************)
(* Properties of the cipher                                                *)
(***************************************************************************)
Decrypting == dec.ozip_path # ""

Encrypting == enc.output_ozip_path # ""

\* The key streams of the registry keys, by index.
RegistryStreams == [k \in 1..Len(KEYS) |-> KeyStream(unhexlify(KEYS[k]))]

\* The first cipher block of the container body, as the trial reads it.
FirstBlock == PadIfNeeded(ReadAt(fs[dec.ozip_path], HeaderSize, AESBlock))

\* The body validates under the key at index k: its first 4 decrypted bytes
\* are the archive magic.
ValidatesUnder(k) == ReadAt(DecryptWith(RegistryStreams[k], FirstBlock), 0, 4) = ZipMagic

OnlyKey(i) ==
  /\ ValidatesUnder(i)
  /\ \A j \in 1..Len(KEYS) : j # i => ~ValidatesUnder(j)

\* The keys have been tried in registry order, none beyond index i; the call
\* has not raised, and where it has returned it has returned True with KEYS[i].
TriedUpTo(i) ==
  /\ tried = [n \in 1..Len(tried) |-> n]
  /\ Len(tried) <= i
  /\ pc # "except"
  /\ Done => dec.result /\ successful_key = KEYS[i]

\* C2: key determinism.  With no cancel request, a body that validates only
\* under the registry key at index i makes decrypt_ozip succeed with KEYS[i]
\* recorded; the keys are tried in registry order and none after i is tried.
C2_KeyDeterminism ==
  (Decrypting /\ ~cancel_requested) =>
    \A i \in 1..Len(KEYS) : TriedUpTo(i) \/ ~OnlyKey(i)

\* A body only key 10 validates has been decrypted: keys 1..10 were tried.
C2_Witness ==
  /\ Decrypting
  /\ Done
  /\ ~cancel_requested
  /\ OnlyKey(10)
  /\ successful_key = KEYS[10]
  /\ tried = <<1, 2, 3, 4, 5, 6, 7, 8, 9, 10>>

\* No key of the registry validates the body.
NoKeyValidates == \A k \in 1..Len(KEYS) : ~ValidatesUnder(k)

\* The container is there and is large enough to hold a header.
Readable == dec.ozip_path \in DOMAIN fs /\ Len(fs[dec.ozip_path]) >= HeaderSize

\* C11: key exhaustion.  With no cancel request, a body that no registry key
\* validates makes decrypt_ozip try the keys once each in registry order and
\* then raise the key-exhausted error; it never returns, records no key and
\* leaves neither the decrypted output nor a temporary file.
C11_KeyExhaustion ==
  (Decrypting /\ ~cancel_requested /\ Readable /\ NoKeyValidates) =>
    /\ ~Done
    /\ tried = [n \in 1..Len(tried) |-> n]
    /\ successful_key = NoKey
    /\ dec.output_path \notin DOMAIN fs
    /\ pc = "except" =>
         /\ error = MsgExhausted
         /\ Len(tried) = Len(KEYS)
         /\ PathTempDecrypt \notin DOMAIN fs

\* A body under a key the registry lacks has been through every registry key.
C11_Witness ==
  /\ Decrypting
  /\ ~cancel_requested
  /\ Readable
  /\ NoKeyValidates
  /\ pc = "except"
  /\ error = MsgExhausted
  /\ Len(tried) = Len(KEYS)

\* What the cipher was handed so far by encrypt_to_ozip: the body of the
\* container, decrypted under the recorded key.
HandedToEncrypt ==
  AESDecrypt(unhexlify(successful_key),
             SubSeq(fs[enc.output_ozip_path], HeaderSize + 1, Len(fs[enc.output_ozip_path])))

\* What the cipher was handed so far by the current trial of decrypt_ozip: the
\* temporary file, encrypted under the key of the trial.
HandedToDecrypt == AESEncrypt(unhexlify(KEYS[dec.ki]), fs[PathTempDecrypt])

\* C13: zero extension of partial chunks.  Every byte that encrypt_to_ozip or
\* decrypt_ozip appends to a chunk whose length is no multiple of 16, to bring
\* it to the next 16-byte boundary before the cipher, is a zero byte.
C13_ZeroExtension ==
  /\ (Encrypting /\ enc.f_out /\ (pc = "enc_chunk" \/ Done)) =>
       \A i \in (enc.bytes_processed + 1)..Len(HandedToEncrypt) : HandedToEncrypt[i] = 0
  /\ (Decrypting /\ pc \in {"dec_chunk", "dec_verify"}) =>
       \A i \in (dec.bytes_decrypted + 1)..Len(HandedToDecrypt) : HandedToDecrypt[i] = 0

\* The worker is in the encryption stage of a run, or has just left it.
InEncryptionStage == threads = 1 /\ pc \in {"enc_open", "enc_chunk", "cleanup"}

\* The body of a container on disk starts with the archive magic under key k.
ContainerUnder(path, k) ==
  /\ path \in DOMAIN fs
  /\ Len(fs[path]) >= HeaderSize + AESBlock
  /\ ReadAt(DecryptWith(RegistryStreams[k], ReadAt(fs[path], HeaderSize, AESBlock)), 0, 4)
       = ZipMagic

\* C16: the winning key is per run.  Whenever a run is in its encryption stage,
\* the key it encrypts with is the key under which the decryption stage of the
\* same run validated the container of that run, whatever key an earlier run
\* recorded; and when the decode call has returned, its temporary file is gone.
C16_KeyPerRun ==
  /\ InEncryptionStage =>
       /\ dec.result
       /\ successful_key = KEYS[dec.ki]
       /\ ValidatesUnder(dec.ki)
  /\ pc = "step1_ret" => PathTempDecrypt \notin DOMAIN fs

\* A run is about to encrypt with the second key, which its own decryption
\* stage found, while the output of an earlier run under the first key is
\* still on disk.
C16_Witness ==
  /\ threads = 1
  /\ pc = "enc_open"
  /\ successful_key = KEYS[2]
  /\ dec.ki = 2
  /\ ContainerUnder(PathOut, 1)

Container == fs[enc.output_ozip_path]

\* C9: container framing.  The output of encrypt_to_ozip starts with the 12-byte
\* magic, continues with zero bytes up to the header size, and ends with an
\* encrypted body whose length is a multiple of 16: the archive, padded, under
\* the recorded key.
C9_Framing ==
  /\ (Encrypting /\ (pc = "enc_chunk" \/ Done)) =>
       /\ Len(Container) >= HeaderSize
       /\ SubSeq(Container, 1, Len(Magic)) = Magic
       /\ \A i \in (Len(Magic) + 1)..HeaderSize : Container[i] = 0
       /\ (Len(Container) - HeaderSize) % AESBlock = 0
  /\ (Encrypting /\ Done) =>
       SubSeq(AESDecrypt(unhexlify(successful_key),
                         SubSeq(Container, HeaderSize + 1, Len(Container))),
              1, enc.zip_size) = fs[enc.zip_path]

\* An archive of a chunk and five bytes has been encrypted: two chunks were
\* written, the second padded to one cipher block.
C9_Witness ==
  /\ Encrypting
  /\ Done
  /\ enc.zip_size = ChunkSize + 5
  /\ Len(Container) = HeaderSize + ChunkSize + AESBlock

====
